---- MODULE Spec2Model ----
(***************************************************************************)
(* Single-player Tic-Tac-Toe (X vs O) with a minimax computer opponent.    *)
(* The board is the list of 9 cells of main.py, indexed 0..8 in row-major  *)
(* order.  minimax is modelled twice from the same helper operators: as a  *)
(* step machine over an explicit call stack that writes and restores the   *)
(* one shared board, and as a recursive operator that threads that board   *)
(* through every placement and undo.                                       *)
(***************************************************************************)
EXTENDS Integers, Sequences, FiniteSets, TLC

\* ------------------------------------------------------------ constants

PLAYER == "X"

COMPUTER == "O"

EMPTY == " "

\* Python's None for Optional[int]: an integer outside the cell indices.
None == -1

\* float("inf"): any value above every score; only compared with < and >.
INF == 2

\* A top-level call of minimax is traced step by step when its board has
\* at most MaxStepped empty cells; a larger search is one atomic step.
MaxStepped == 3

Cells == 0..8

Symbols == {PLAYER, COMPUTER, EMPTY}

EmptyBoard == [i \in Cells |-> EMPTY]

\* ---------------------------------------------------------- board state

win_lines ==
  { <<0, 1, 2>>, <<3, 4, 5>>, <<6, 7, 8>>,
    <<0, 3, 6>>, <<1, 4, 7>>, <<2, 5, 8>>,
    <<0, 4, 8>>, <<2, 4, 6>> }

check_win(board, symbol) ==
  \E line \in win_lines :
    board[line[1]] = symbol /\ board[line[2]] = symbol /\ board[line[3]] = symbol

\* Line 39 returning False whatever the board.
check_draw_never(board) ==
  FALSE

check_draw(board) ==
  \A i \in Cells : board[i] # EMPTY

get_available_moves(board) ==
  SelectSeq(<<0, 1, 2, 3, 4, 5, 6, 7, 8>>, LAMBDA index : board[index] = EMPTY)

make_move(board, index, symbol) ==
  [board EXCEPT ![index] = symbol]

\* ------------------------------------------------- minimax: shared parts

\* Lines 56-57 left out: the search goes on below a line of the human.
IsTerminalNoHumanWin(board) ==
  check_win(board, COMPUTER) \/ check_draw(board)

\* Lines 54-59: the three terminal checks, in order.
IsTerminal(board) ==
  check_win(board, COMPUTER) \/ check_win(board, PLAYER) \/ check_draw(board)

\* Lines 54-57 with the human's line tested before the computer's.
TerminalScoreHumanFirst(board) ==
  IF check_win(board, PLAYER) THEN -1
  ELSE IF check_win(board, COMPUTER) THEN 1
  ELSE 0

\* Lines 54-59: the score of the first terminal check that fires.
TerminalScore(board) ==
  IF check_win(board, COMPUTER) THEN 1
  ELSE IF check_win(board, PLAYER) THEN -1
  ELSE 0

\* Line 61 starting both searches from a score of 0.
InitialBestZero(is_maximizing) ==
  0

\* Line 61.
InitialBest(is_maximizing) ==
  IF is_maximizing THEN -INF ELSE INF

\* Line 65 placing the computer's mark for either side.
PlaceAlwaysComputer(board, move, is_maximizing) ==
  [board EXCEPT ![move] = COMPUTER]

\* Line 65: board[move] = COMPUTER if is_maximizing else PLAYER.
Place(board, move, is_maximizing) ==
  [board EXCEPT ![move] = IF is_maximizing THEN COMPUTER ELSE PLAYER]

\* Line 67 left out: the placement is never taken back.
UndoSkipped(board, move) ==
  board

\* Line 67 writing the computer's mark where it should clear the cell.
UndoAsComputer(board, move) ==
  [board EXCEPT ![move] = COMPUTER]

\* Line 67: board[move] = EMPTY.
Undo(board, move) ==
  [board EXCEPT ![move] = EMPTY]

\* Lines 69-74 with the two comparisons exchanged.
UpdateBestExchanged(is_maximizing, score, move, best) ==
  IF is_maximizing /\ score < best.score THEN [score |-> score, move |-> move]
  ELSE IF ~is_maximizing /\ score > best.score THEN [score |-> score, move |-> move]
  ELSE best

\* Lines 69-74 with >= and <= for > and <: the last best candidate is kept.
UpdateBestNotStrict(is_maximizing, score, move, best) ==
  IF is_maximizing /\ score >= best.score THEN [score |-> score, move |-> move]
  ELSE IF ~is_maximizing /\ score <= best.score THEN [score |-> score, move |-> move]
  ELSE best

\* Lines 69-74: strict comparisons, so the first best candidate is kept.
UpdateBest(is_maximizing, score, move, best) ==
  IF is_maximizing /\ score > best.score THEN [score |-> score, move |-> move]
  ELSE IF ~is_maximizing /\ score < best.score THEN [score |-> score, move |-> move]
  ELSE best

\* ------------------------------------------- minimax as a recursive operator

RECURSIVE minimax(_, _)

\* One pass of the for loop of lines 64-74, for the k-th candidate: `state`
\* holds the shared board as the earlier passes left it and the best
\* candidate so far.  A k beyond the candidates is no pass at all.  The
\* board handed to the recursive call and the result it returns are bound
\* as values before they are used.  calls and depth observe the run: the
\* invocations of minimax made so far by this call, itself included, and
\* the deepest nesting of calls below it.
minimax_iteration(state, is_maximizing, moves, k) ==
  IF k > Len(moves)
  THEN state
  ELSE CHOOSE next \in
         {[board |-> Undo(sub.board, moves[k]),
           best |-> UpdateBest(is_maximizing, sub.score, moves[k], state.best),
           calls |-> state.calls + sub.calls,
           depth |-> IF sub.depth + 1 > state.depth THEN sub.depth + 1
                                                    ELSE state.depth] :
            sub \in {minimax(placed, other) :
                       placed \in {Place(state.board, moves[k], is_maximizing)},
                       other \in {~is_maximizing}}} : TRUE

\* Returns the (score, move) pair and the board as the call leaves it.  The
\* loop runs over at most 9 candidates; its passes are listed from the
\* first (innermost) to the ninth, each bound as a value for the next.
minimax(board, is_maximizing) ==
  IF IsTerminal(board)
  THEN [score |-> TerminalScore(board), move |-> None, board |-> board,
        calls |-> 1, depth |-> 0]
  ELSE LET moves == get_available_moves(board)
           s0 == [board |-> board,
                  best |-> [score |-> InitialBest(is_maximizing), move |-> None],
                  calls |-> 1, depth |-> 0]
       IN CHOOSE done \in
            {[score |-> s9.best.score, move |-> s9.best.move, board |-> s9.board,
              calls |-> s9.calls, depth |-> s9.depth] :
               s9 \in {minimax_iteration(s8, is_maximizing, moves, 9) :
               s8 \in {minimax_iteration(s7, is_maximizing, moves, 8) :
               s7 \in {minimax_iteration(s6, is_maximizing, moves, 7) :
               s6 \in {minimax_iteration(s5, is_maximizing, moves, 6) :
               s5 \in {minimax_iteration(s4, is_maximizing, moves, 5) :
               s4 \in {minimax_iteration(s3, is_maximizing, moves, 4) :
               s3 \in {minimax_iteration(s2, is_maximizing, moves, 3) :
               s2 \in {minimax_iteration(s1, is_maximizing, moves, 2) :
               s1 \in {minimax_iteration(s0, is_maximizing, moves, 1)}}}}}}}}}} : TRUE

\* ------------------------------------------------------- text and input

\* A line of input is a sequence of one-character strings.  "sup2" stands
\* for the superscript two (U+00B2): str.isdigit() accepts it and int()
\* does not.
DecimalChars == {"0", "1", "2", "3"}

Chars == DecimalChars \cup {",", " ", "x", "sup2"}

\* Inputs to get_player_move are all lines of at most MaxInputLen characters.
MaxInputLen == 3

Lines == UNION {[1..n -> Chars] : n \in 0..MaxInputLen}

IsSpaceChar(c) == c = " "

\* str.isdigit() holds of decimal digits and of other Unicode digits.
IsDigitChar(c) == c \in DecimalChars \cup {"sup2"}

DigitValue(c) ==
  CASE c = "0" -> 0 [] c = "1" -> 1 [] c = "2" -> 2 [] c = "3" -> 3

\* str.strip(): drops leading and trailing whitespace.
strip(s) ==
  LET keep == {i \in 1..Len(s) : ~IsSpaceChar(s[i])}
  IN IF keep = {} THEN <<>>
     ELSE SubSeq(s, CHOOSE i \in keep : \A j \in keep : i <= j,
                    CHOOSE i \in keep : \A j \in keep : i >= j)

\* str.isdigit(): non-empty and every character a digit.
isdigit(s) ==
  s # <<>> /\ \A i \in 1..Len(s) : IsDigitChar(s[i])

\* int() accepts a string of decimal digits only; anything else is a ValueError.
IntValid(s) ==
  s # <<>> /\ \A i \in 1..Len(s) : s[i] \in DecimalChars

RECURSIVE int(_)
int(s) ==
  IF s = <<>> THEN 0
  ELSE 10 * int(SubSeq(s, 1, Len(s) - 1)) + DigitValue(s[Len(s)])

\* Lines 98-100 left out: the cell named is returned whatever it holds.
get_player_move_any_cell(board, raw) ==
  LET move == strip(raw)
      commas == {i \in 1..Len(move) : move[i] = ","}
      first == CHOOSE i \in commas : \A j \in commas : i <= j
      row_str == strip(SubSeq(move, 1, first - 1))
      col_str == strip(SubSeq(move, first + 1, Len(move)))
      row == int(row_str)
      col == int(col_str)
      index == (row - 1) * 3 + (col - 1)
  IN IF commas = {}
     THEN [kind |-> "rejected", index |-> None,
           message |-> "Please use the format row,col (e.g. 2,1)."]
     ELSE IF ~isdigit(row_str) \/ ~isdigit(col_str)
     THEN [kind |-> "rejected", index |-> None,
           message |-> "Row and column must be numbers between 1 and 3."]
     ELSE IF ~IntValid(row_str) \/ ~IntValid(col_str)
     THEN [kind |-> "raised", index |-> None, message |-> "ValueError"]
     ELSE IF row \notin {1, 2, 3} \/ col \notin {1, 2, 3}
     THEN [kind |-> "rejected", index |-> None,
           message |-> "Row and column must each be between 1 and 3."]
     ELSE [kind |-> "returned", index |-> index, message |-> ""]

\* Lines 82-102, one pass of the while loop on the input line `raw`: the
\* message printed on a rejection, the index returned, or the exception.
get_player_move(board, raw) ==
  LET move == strip(raw)
      commas == {i \in 1..Len(move) : move[i] = ","}
      first == CHOOSE i \in commas : \A j \in commas : i <= j
      row_str == strip(SubSeq(move, 1, first - 1))
      col_str == strip(SubSeq(move, first + 1, Len(move)))
      row == int(row_str)
      col == int(col_str)
      index == (row - 1) * 3 + (col - 1)
  IN IF commas = {}
     THEN [kind |-> "rejected", index |-> None,
           message |-> "Please use the format row,col (e.g. 2,1)."]
     ELSE IF ~isdigit(row_str) \/ ~isdigit(col_str)
     THEN [kind |-> "rejected", index |-> None,
           message |-> "Row and column must be numbers between 1 and 3."]
     ELSE IF ~IntValid(row_str) \/ ~IntValid(col_str)
     THEN [kind |-> "raised", index |-> None, message |-> "ValueError"]
     ELSE IF row \notin {1, 2, 3} \/ col \notin {1, 2, 3}
     THEN [kind |-> "rejected", index |-> None,
           message |-> "Row and column must each be between 1 and 3."]
     ELSE IF board[index] # EMPTY
     THEN [kind |-> "rejected", index |-> None,
           message |-> "That square is already taken. Try again."]
     ELSE [kind |-> "returned", index |-> index, message |-> ""]

\* Answers offered to ask_play_again.
Answers ==
  { <<"y">>, <<"Y">>, <<"y", "e", "s">>, <<" ", "Y", "e", "s", " ">>,
    <<"n">>, <<"N", "O">>, <<"n", "o", " ">>,
    <<>>, <<"x">>, <<"y", "e">>, <<"n", "o", "n">> }

\* str.lower() on the letters the answers use.
lower(s) ==
  [i \in 1..Len(s) |->
     CASE s[i] = "Y" -> "y" [] s[i] = "E" -> "e" [] s[i] = "S" -> "s"
       [] s[i] = "N" -> "n" [] s[i] = "O" -> "o" [] OTHER -> s[i]]

\* Lines 145-150, one pass of the while loop: TRUE, FALSE, or "again".
ask_play_again(raw) ==
  LET response == lower(strip(raw))
  IN IF response \in {<<"y">>, <<"y", "e", "s">>} THEN "yes"
     ELSE IF response \in {<<"n">>, <<"n", "o">>} THEN "no"
     ELSE "again"

\* -------------------------------------------------------------- state

VARIABLES
  board,           \* the one list of 9 cells
  current_player,  \* play_game's current_player
  move,            \* play_game's move, once a move has been returned
  message,         \* the last line print() wrote, or the exception raised
  pc,              \* where the caller of minimax stands
  stack,           \* minimax's activation records, innermost first
  ret,             \* the value the last returned call of minimax handed back
  call             \* the arguments of the running or last top-level call

vars == <<board, current_player, move, message, pc, stack, ret, call>>

NumEmpty(b) == Cardinality({i \in Cells : b[i] = EMPTY})

\* A fresh activation of minimax; entry records the board at the call.
Frame(b, is_maximizing) ==
  [is_maximizing |-> is_maximizing, at |-> "check", entry |-> b,
   moves |-> <<>>, best |-> [score |-> 0, move |-> None]]

NoRet == [score |-> 0, move |-> None]

NoCall == [board |-> EmptyBoard, is_maximizing |-> TRUE]

\* The running top-level call is on a board small enough to trace.
Stepped == stack # <<>> /\ NumEmpty(call.board) <= MaxStepped

Top == Head(stack)

\* Where the caller continues once the top-level call has returned.
AfterReturn(rest) ==
  IF rest = <<>> /\ pc = "minimax" THEN "done" ELSE pc

\* ------------------------------------------------- minimax as a step machine

\* Lines 54-59: a terminal check fires and the call returns at once.
MinimaxTerminal ==
  /\ Stepped
  /\ Top.at = "check"
  /\ IsTerminal(board)
  /\ ret' = [score |-> TerminalScore(board), move |-> None]
  /\ stack' = Tail(stack)
  /\ pc' = AfterReturn(Tail(stack))
  /\ UNCHANGED <<board, current_player, move, message, call>>

\* Lines 61-64: no terminal check fires; the candidates are listed once.
MinimaxInit ==
  /\ Stepped
  /\ Top.at = "check"
  /\ ~IsTerminal(board)
  /\ stack' = <<[Top EXCEPT !.at = "loop",
                            !.moves = get_available_moves(board),
                            !.best = [score |-> InitialBest(Top.is_maximizing),
                                      move |-> None]]>> \o Tail(stack)
  /\ UNCHANGED <<board, current_player, move, message, pc, ret, call>>

\* Lines 64-66: the next candidate is placed and minimax recurses.
MinimaxDescend ==
  /\ Stepped
  /\ Top.at = "loop"
  /\ Top.moves # <<>>
  /\ board' = Place(board, Head(Top.moves), Top.is_maximizing)
  /\ stack' = <<Frame(board', ~Top.is_maximizing), [Top EXCEPT !.at = "wait"]>>
                 \o Tail(stack)
  /\ UNCHANGED <<current_player, move, message, pc, ret, call>>

\* Lines 66-74: the recursive call has returned; undo and compare.
MinimaxResume ==
  /\ Stepped
  /\ Top.at = "wait"
  /\ board' = Undo(board, Head(Top.moves))
  /\ stack' = <<[Top EXCEPT !.at = "loop",
                            !.moves = Tail(Top.moves),
                            !.best = UpdateBest(Top.is_maximizing, ret.score,
                                                Head(Top.moves), Top.best)]>>
                 \o Tail(stack)
  /\ UNCHANGED <<current_player, move, message, pc, ret, call>>

\* Line 76: the candidates are exhausted.
MinimaxReturn ==
  /\ Stepped
  /\ Top.at = "loop"
  /\ Top.moves = <<>>
  /\ ret' = Top.best
  /\ stack' = Tail(stack)
  /\ pc' = AfterReturn(Tail(stack))
  /\ UNCHANGED <<board, current_player, move, message, call>>

\* A top-level call on a board with more than MaxStepped empty cells, from
\* its start to its return in one step.
MinimaxAtomic ==
  /\ stack # <<>>
  /\ ~Stepped
  /\ \E r \in {minimax(board, Top.is_maximizing)} :
        /\ board' = r.board
        /\ ret' = [score |-> r.score, move |-> r.move]
  /\ stack' = <<>>
  /\ pc' = AfterReturn(<<>>)
  /\ UNCHANGED <<current_player, move, message, call>>

MinimaxStep ==
  \/ MinimaxTerminal
  \/ MinimaxInit
  \/ MinimaxDescend
  \/ MinimaxResume
  \/ MinimaxReturn
  \/ MinimaxAtomic

\* ------------------------------------------------------ get_computer_move

\* Lines 124-125 and 107: the call of minimax(board, True).
GetComputerMoveCall ==
  /\ pc = "computer_call"
  /\ message' = "Computer is thinking..."
  /\ call' = [board |-> board, is_maximizing |-> TRUE]
  /\ stack' = <<Frame(board, TRUE)>>
  /\ pc' = "computer_search"
  /\ UNCHANGED <<board, current_player, move, ret>>

\* Line 108: the move of minimax, or the first available move; indexing an
\* empty list of available moves raises IndexError.
GetComputerMoveReturn ==
  /\ pc = "computer_search"
  /\ stack = <<>>
  /\ IF ret.move # None
     THEN move' = ret.move /\ pc' = "computer_move" /\ UNCHANGED message
     ELSE IF get_available_moves(board) # <<>>
     THEN /\ move' = get_available_moves(board)[1]
          /\ pc' = "computer_move"
          /\ UNCHANGED message
     ELSE move' = None /\ pc' = "raised" /\ message' = "IndexError"
  /\ UNCHANGED <<board, current_player, stack, ret, call>>

\* ------------------------------------------------------------- play_game

\* Lines 113-117, entered from main (line 156).
PlayGameStart ==
  /\ board = EmptyBoard
  /\ current_player = PLAYER
  /\ move = None
  /\ message = "Welcome to Tic-Tac-Toe! You are X, the computer is O."
  /\ pc = "player_input"
  /\ stack = <<>>
  /\ ret = NoRet
  /\ call = NoCall

\* Line 130 testing the line of the player who did not move.
AfterMoveOtherSymbol(b) ==
  IF check_win(b, IF current_player = PLAYER THEN COMPUTER ELSE PLAYER)
  THEN /\ message' = IF current_player = PLAYER THEN "You win!" ELSE "Computer wins!"
       /\ pc' = "ask"
       /\ UNCHANGED current_player
  ELSE IF check_draw(b)
  THEN /\ message' = "It's a draw!"
       /\ pc' = "ask"
       /\ UNCHANGED current_player
  ELSE /\ current_player' = IF current_player = PLAYER THEN COMPUTER ELSE PLAYER
       /\ pc' = IF current_player = PLAYER THEN "computer_call" ELSE "player_input"
       /\ UNCHANGED message

\* Line 133 left out: the win is announced and the loop goes on.
AfterMoveNoBreak(b) ==
  /\ message' = IF check_win(b, current_player)
                THEN IF current_player = PLAYER THEN "You win!" ELSE "Computer wins!"
                ELSE IF check_draw(b) THEN "It's a draw!" ELSE message
  /\ IF ~check_win(b, current_player) /\ check_draw(b)
     THEN pc' = "ask" /\ UNCHANGED current_player
     ELSE /\ current_player' = IF current_player = PLAYER THEN COMPUTER ELSE PLAYER
          /\ pc' = IF current_player = PLAYER THEN "computer_call" ELSE "player_input"

\* Line 139 left out: the same player moves again.
AfterMoveNoFlip(b) ==
  IF check_win(b, current_player)
  THEN /\ message' = IF current_player = PLAYER THEN "You win!" ELSE "Computer wins!"
       /\ pc' = "ask"
       /\ UNCHANGED current_player
  ELSE IF check_draw(b)
  THEN /\ message' = "It's a draw!"
       /\ pc' = "ask"
       /\ UNCHANGED current_player
  ELSE /\ pc' = IF current_player = PLAYER THEN "player_input" ELSE "computer_call"
       /\ UNCHANGED <<current_player, message>>

\* Lines 135-137 left out: a full board without a line ends nothing.
AfterMoveNoDraw(b) ==
  IF check_win(b, current_player)
  THEN /\ message' = IF current_player = PLAYER THEN "You win!" ELSE "Computer wins!"
       /\ pc' = "ask"
       /\ UNCHANGED current_player
  ELSE /\ current_player' = IF current_player = PLAYER THEN COMPUTER ELSE PLAYER
       /\ pc' = IF current_player = PLAYER THEN "computer_call" ELSE "player_input"
       /\ UNCHANGED message

\* Lines 130-139 after a move has been applied, giving board b.
AfterMove(b) ==
  IF check_win(b, current_player)
  THEN /\ message' = IF current_player = PLAYER THEN "You win!" ELSE "Computer wins!"
       /\ pc' = "ask"
       /\ UNCHANGED current_player
  ELSE IF check_draw(b)
  THEN /\ message' = "It's a draw!"
       /\ pc' = "ask"
       /\ UNCHANGED current_player
  ELSE /\ current_player' = IF current_player = PLAYER THEN COMPUTER ELSE PLAYER
       /\ pc' = IF current_player = PLAYER THEN "computer_call" ELSE "player_input"
       /\ UNCHANGED message

\* Line 121: one pass of get_player_move's loop on one line of input.
GetPlayerMove ==
  /\ pc = "player_input"
  /\ current_player = PLAYER
  /\ \E raw \in Lines :
       \E r \in {get_player_move(board, raw)} :
         /\ message' = IF r.kind = "returned" THEN message ELSE r.message
         /\ move' = IF r.kind = "returned" THEN r.index ELSE move
         /\ pc' = CASE r.kind = "returned" -> "player_move"
                     [] r.kind = "rejected" -> "player_input"
                     [] r.kind = "raised" -> "raised"
  /\ UNCHANGED <<board, current_player, stack, ret, call>>

\* Lines 122 and 128-139: the player's move is applied and judged.
PlayerMove ==
  /\ pc = "player_move"
  /\ board' = make_move(board, move, PLAYER)
  /\ AfterMove(board')
  /\ UNCHANGED <<move, stack, ret, call>>

\* Lines 126 and 128-139: the computer's move is applied and judged.
ComputerMove ==
  /\ pc = "computer_move"
  /\ board' = make_move(board, move, COMPUTER)
  /\ AfterMove(board')
  /\ UNCHANGED <<move, stack, ret, call>>

\* ------------------------------------------------------------------ main

\* The board made once, before the loop of main: line 113 run only for the
\* first round.
AskPlayAgainSameBoard ==
  /\ pc = "ask"
  /\ \E raw \in Answers :
       \E answer \in {ask_play_again(raw)} :
         IF answer = "yes"
         THEN /\ current_player' = PLAYER
              /\ move' = None
              /\ message' = "Welcome to Tic-Tac-Toe! You are X, the computer is O."
              /\ pc' = "player_input"
              /\ ret' = NoRet
              /\ call' = NoCall
              /\ UNCHANGED <<board, stack>>
         ELSE IF answer = "no"
         THEN /\ message' = "Thanks for playing!"
              /\ pc' = "exit"
              /\ UNCHANGED <<board, current_player, move, stack, ret, call>>
         ELSE /\ message' = "Please enter 'y' or 'n'."
              /\ UNCHANGED <<board, current_player, move, pc, stack, ret, call>>

\* Lines 155-159: one pass of ask_play_again's loop on one line of input;
\* a yes starts the next round with play_game's fresh locals.
AskPlayAgain ==
  /\ pc = "ask"
  /\ \E raw \in Answers :
       \E answer \in {ask_play_again(raw)} :
         IF answer = "yes"
         THEN /\ board' = EmptyBoard
              /\ current_player' = PLAYER
              /\ move' = None
              /\ message' = "Welcome to Tic-Tac-Toe! You are X, the computer is O."
              /\ pc' = "player_input"
              /\ ret' = NoRet
              /\ call' = NoCall
              /\ UNCHANGED stack
         ELSE IF answer = "no"
         THEN /\ message' = "Thanks for playing!"
              /\ pc' = "exit"
              /\ UNCHANGED <<board, current_player, move, stack, ret, call>>
         ELSE /\ message' = "Please enter 'y' or 'n'."
              /\ UNCHANGED <<board, current_player, move, pc, stack, ret, call>>

Init == PlayGameStart

Next ==
  \/ GetPlayerMove
  \/ PlayerMove
  \/ GetComputerMoveCall
  \/ MinimaxStep
  \/ GetComputerMoveReturn
  \/ ComputerMove
  \/ AskPlayAgain

Spec == Init /\ [][Next]_vars

\* The steps the program takes by itself, without waiting for a line of
\* input: Python runs them one after the other until the next input().
ProgramStep ==
  \/ PlayerMove
  \/ GetComputerMoveCall
  \/ MinimaxStep
  \/ GetComputerMoveReturn
  \/ ComputerMove

SpecFair == Spec /\ WF_vars(ProgramStep)

\* --------------------------------------------- minimax on arbitrary boards

Boards == [Cells -> Symbols]

\* Every board with at most MaxStepped empty cells, every board with a
\* winning line, and the empty board.
SearchInputs ==
  {b \in Boards : \/ NumEmpty(b) <= MaxStepped
                  \/ check_win(b, COMPUTER)
                  \/ check_win(b, PLAYER)} \cup {EmptyBoard}

\* A top-level call of minimax with either flag, or get_computer_move's call.
InitSearch ==
  /\ board \in SearchInputs
  /\ \E m \in BOOLEAN :
       /\ call = [board |-> board, is_maximizing |-> m]
       /\ stack = <<Frame(board, m)>>
       /\ pc \in IF m THEN {"minimax", "computer_search"} ELSE {"minimax"}
  /\ current_player = COMPUTER
  /\ move = None
  /\ message = ""
  /\ ret = NoRet

NextSearch ==
  \/ MinimaxStep
  \/ GetComputerMoveReturn

SpecSearch == InitSearch /\ [][NextSearch]_vars

\* ------------------------------------------- check_draw on arbitrary boards

\* A caller about to ask check_draw about any list of 9 cells.
InitBoard ==
  /\ board \in Boards
  /\ pc = "check_draw"
  /\ current_player = PLAYER
  /\ move = None
  /\ message = ""
  /\ stack = <<>>
  /\ ret = NoRet
  /\ call = NoCall

\* Lines 37-39: the call returns; ret holds the bool it hands back.
CheckDraw ==
  /\ pc = "check_draw"
  /\ ret' = check_draw(board)
  /\ pc' = "check_draw_returned"
  /\ UNCHANGED <<board, current_player, move, message, stack, call>>

NextBoard == CheckDraw

SpecBoard == InitBoard /\ [][NextBoard]_vars

\* ------------------------------------------------------------- properties

\* The top-level call of minimax has just returned to its caller.
TopLevelReturned ==
  stack = <<>> /\ pc \in {"done", "computer_search"}

\* A board with an empty cell and no winning line.
Playable(b) ==
  /\ NumEmpty(b) > 0
  /\ ~check_win(b, PLAYER)
  /\ ~check_win(b, COMPUTER)

Mark(is_maximizing) == IF is_maximizing THEN COMPUTER ELSE PLAYER

EmptyCells(b) == {i \in Cells : b[i] = EMPTY}

Highest(S) == CHOOSE x \in S : \A y \in S : y <= x

Lowest(S) == CHOOSE x \in S : \A y \in S : x <= y

\* The innermost call of minimax stands at one of its return statements.
AtReturn ==
  /\ stack # <<>>
  /\ \/ Top.at = "check" /\ IsTerminal(board)
     \/ Top.at = "loop" /\ Top.moves = <<>>

\* C1: in a round of play_game the board between moves never shows a
\* winning line of the human, and a finished round is a computer win or a
\* draw.
C1_ComputerNeverLoses ==
  /\ stack = <<>> => ~check_win(board, PLAYER)
  /\ message # "You win!"
  /\ pc \in {"ask", "exit"} =>
       \/ check_win(board, COMPUTER)
       \/ check_draw(board) /\ ~check_win(board, PLAYER)

C1_Witness ==
  /\ pc = "ask"
  /\ message = "Computer wins!"
  /\ check_win(board, COMPUTER)

\* C2: whenever a call of minimax returns, at any depth, early or after its
\* loop, the board holds what it held when that call started.
C2_BoardRestored ==
  /\ AtReturn => board = Top.entry
  /\ TopLevelReturned => board = call.board

C2_Witness ==
  /\ Len(stack) = 3
  /\ Top.at = "loop"
  /\ Top.moves = <<>>
  /\ Top.best.move # None
  /\ board = Top.entry
  /\ board # call.board

\* An upper bound on the steps a call of minimax takes on a board with k
\* empty cells: the checks, then per candidate the descent, the nested
\* call and the comparison, then the return.
RECURSIVE StepBound(_)
StepBound(k) ==
  IF k <= 0 THEN 1 ELSE 2 + k * (StepBound(k - 1) + 2)

\* The steps one activation record still has to take, nested calls apart.
FrameBound(f) ==
  LET perCandidate == StepBound(NumEmpty(f.entry) - 1) + 2
  IN CASE f.at = "check" -> StepBound(NumEmpty(f.entry))
       [] f.at = "loop" -> Len(f.moves) * perCandidate + 1
       [] f.at = "wait" -> (Len(f.moves) - 1) * perCandidate + 2

RECURSIVE RemainingBound(_)
RemainingBound(frames) ==
  IF frames = <<>> THEN 0
  ELSE FrameBound(Head(frames)) + RemainingBound(Tail(frames))

\* C3: on every board with an empty cell and no winning line, with either
\* flag, minimax terminates and the score it returns is -1, 0 or +1: every
\* step of a running call lowers a bound on the steps that remain (the
\* empty cells shrink on every descent), the call it leads to can take a
\* further step until it has returned, and the score handed back is never
\* the initial infinity.
C3_TerminatesWithScore ==
  [][/\ stack # <<>> => RemainingBound(stack') < RemainingBound(stack)
     /\ stack' # <<>> => (ENABLED MinimaxStep)'
     /\ TopLevelReturned' /\ Playable(call'.board) => ret'.score \in {-1, 0, 1}]_vars

C3_Witness ==
  /\ pc = "done"
  /\ Playable(call.board)
  /\ NumEmpty(call.board) = MaxStepped
  /\ ~call.is_maximizing
  /\ ret.score = -1

\* The pairs <<candidate, score of the position it leads to>> of board b.
ChildScores(b, is_maximizing) ==
  {<<i, minimax([b EXCEPT ![i] = Mark(is_maximizing)], ~is_maximizing).score>> :
     i \in EmptyCells(b)}

BestOf(children, is_maximizing) ==
  IF is_maximizing THEN Highest({c[2] : c \in children})
  ELSE Lowest({c[2] : c \in children})

\* C4: on a non-terminal board minimax returns the highest (maximizing) or
\* lowest (minimizing) score among the positions its candidates lead to, and
\* the smallest index among the candidates reaching it; on the empty board
\* with is_maximizing = True that index is 0.
C4_LowestBestMove ==
  /\ TopLevelReturned /\ Playable(call.board) =>
       \E children \in {ChildScores(call.board, call.is_maximizing)} :
         /\ ret.score = BestOf(children, call.is_maximizing)
         /\ ret.move = Lowest({c[1] : c \in {d \in children : d[2] = ret.score}})
  /\ TopLevelReturned /\ call.board = EmptyBoard /\ call.is_maximizing =>
       ret.move = 0

\* Two candidates tie for the best score and a worse one comes before them.
C4_Witness ==
  /\ pc = "done"
  /\ Playable(call.board)
  /\ NumEmpty(call.board) = MaxStepped
  /\ \E children \in {ChildScores(call.board, call.is_maximizing)} :
       /\ \E c \in children : c[1] > ret.move /\ c[2] = ret.score
       /\ \E c \in children : c[1] < ret.move /\ c[2] # ret.score

\* The reference: minimax on a copy of the board per branch, the value of a
\* position being +1, -1 or 0 as the computer wins, the human wins or
\* neither, and otherwise the best value the side to move can reach.
RECURSIVE RefMinimax(_, _)
RefMinimax(b, is_maximizing) ==
  IF check_win(b, COMPUTER) THEN [score |-> 1, move |-> None]
  ELSE IF check_win(b, PLAYER) THEN [score |-> -1, move |-> None]
  ELSE IF EmptyCells(b) = {} THEN [score |-> 0, move |-> None]
  ELSE LET children ==
             {<<i, RefMinimax([b EXCEPT ![i] = Mark(is_maximizing)],
                              ~is_maximizing).score>> : i \in EmptyCells(b)}
           best == BestOf(children, is_maximizing)
       IN [score |-> best,
           move |-> Lowest({c[1] : c \in {d \in children : d[2] = best}})]

\* C5: the score and the move of the in-place minimax are those of the
\* reference minimax on copies, on every board and for either flag.
C5_EqualsReference ==
  TopLevelReturned => ret = RefMinimax(call.board, call.is_maximizing)

\* The human is to move and the computer still forces a win.
C5_Witness ==
  /\ pc = "done"
  /\ Playable(call.board)
  /\ NumEmpty(call.board) = MaxStepped
  /\ ~call.is_maximizing
  /\ ret.score = 1
  /\ ret = RefMinimax(call.board, call.is_maximizing)

\* C6: minimax returns None as its move exactly on the boards with a
\* winning line or no empty cell; on every other board it returns the index
\* of a cell that is empty on the input board.
C6_MoveNoneIffTerminal ==
  TopLevelReturned =>
    IF Playable(call.board)
    THEN ret.move \in Cells /\ call.board[ret.move] = EMPTY
    ELSE ret.move = None

\* A maximizing call whose every candidate loses still names a candidate.
C6_Witness ==
  /\ pc = "done"
  /\ Playable(call.board)
  /\ call.is_maximizing
  /\ ret.score = -1
  /\ ret.move \in EmptyCells(call.board)

\* get_computer_move has returned or raised.
GetComputerMoveEnded == pc \in {"computer_move", "raised"}

\* C7: get_computer_move on a terminal board, a full one included, falls
\* back to the first available move: it returns an index and never raises.
C7_FallbackNeverFails ==
  GetComputerMoveEnded /\ ~Playable(call.board) =>
    pc = "computer_move" /\ move \in Cells

\* Some board that minimax visits from board b, b included, shows a line of
\* each player: the calls of lines 54-66, followed without their scores.
RECURSIVE VisitsBothWin(_, _)
VisitsBothWin(b, is_maximizing) ==
  \/ check_win(b, PLAYER) /\ check_win(b, COMPUTER)
  \/ /\ ~IsTerminal(b)
     /\ \E i \in EmptyCells(b) : VisitsBothWin(Place(b, i, is_maximizing), ~is_maximizing)

\* C8: on the boards of a round and on the boards minimax visits while it
\* searches from them, the human and the computer never both have a line.
C8_NeverBothWin ==
  /\ ~(check_win(board, PLAYER) /\ check_win(board, COMPUTER))
  /\ pc = "computer_search" /\ Len(stack) = 1 /\ Top.at = "check" =>
       ~VisitsBothWin(board, Top.is_maximizing)

\* minimax, searching from a board of the round, visits a board two
\* placements on where the human has a line.
C8_Witness ==
  /\ pc = "computer_search"
  /\ Len(stack) = 3
  /\ check_win(board, PLAYER)
  /\ ~check_win(board, COMPUTER)

\* A step of play_game that applies a move to the board of the round.
MoveApplied ==
  /\ stack = <<>>
  /\ pc \notin {"ask", "exit"}
  /\ board' # board

\* C9: after each applied move the round ends as a win of the mover when
\* the mover has a line, else as a draw when no cell is empty, else goes on
\* with the other player; once it has ended no move is applied to its board.
C9_OutcomeOrder ==
  [][/\ MoveApplied =>
          IF check_win(board', current_player)
          THEN /\ pc' = "ask"
               /\ message' = IF current_player = PLAYER THEN "You win!"
                                                        ELSE "Computer wins!"
          ELSE IF NumEmpty(board') = 0
          THEN pc' = "ask" /\ message' = "It's a draw!"
          ELSE /\ pc' \in {"player_input", "computer_call"}
               /\ current_player' \in {PLAYER, COMPUTER} \ {current_player}
     /\ pc \in {"ask", "exit"} =>
          \/ board' = board
          \/ board' = EmptyBoard /\ pc' = "player_input"]_vars

C9_Witness ==
  /\ pc = "ask"
  /\ message = "It's a draw!"
  /\ NumEmpty(board) = 0
  /\ ~check_win(board, PLAYER)
  /\ ~check_win(board, COMPUTER)

\* C10: get_player_move returns only the index (row-1)*3 + (col-1) of an
\* empty cell with row and col in 1..3, and no line of input makes it fail.
C10_PlayerMoveValidated ==
  /\ pc = "player_move" =>
       /\ \E row \in 1..3, col \in 1..3 : move = (row - 1) * 3 + (col - 1)
       /\ board[move] = EMPTY
  /\ ~(pc = "raised" /\ message = "ValueError")

\* C11: check_draw returns True exactly on the boards with no empty cell on
\* which neither X nor O has a line, as its docstring says; on a full board
\* with a line it returns False.
C11_DrawIffFullNoWinner ==
  pc = "check_draw_returned" =>
    (ret <=> /\ NumEmpty(board) = 0
             /\ ~check_win(board, PLAYER)
             /\ ~check_win(board, COMPUTER))

\* An activation of minimax, at any depth, stands at its first line.
AtEntry == stack # <<>> /\ Top.at = "check"

\* The step returns from the innermost activation with the pair (s, None)
\* and writes no cell.
ReturnsAtOnce(s) ==
  /\ stack' = Tail(stack)
  /\ ret' = [score |-> s, move |-> None]
  /\ board' = board

\* C12: every call of minimax tests computer-win, human-win, full in that
\* order: on a board with an O line it returns (+1, None) at once, whatever
\* else holds; else on a board with an X line (-1, None); else on a full
\* board (0, None); no cell is written in these cases, and on no other
\* board does a top-level call hand back (0, None).
C12_TerminalOrder ==
  [][/\ AtEntry =>
          IF check_win(board, COMPUTER) THEN ReturnsAtOnce(1)
          ELSE IF check_win(board, PLAYER) THEN ReturnsAtOnce(-1)
          ELSE IF NumEmpty(board) = 0 THEN ReturnsAtOnce(0)
          ELSE ~(stack' = Tail(stack) /\ ret'.move = None)
     /\ TopLevelReturned' /\ ret' = [score |-> 0, move |-> None] =>
          /\ NumEmpty(call'.board) = 0
          /\ ~check_win(call'.board, PLAYER)
          /\ ~check_win(call'.board, COMPUTER)]_vars

\* A full board with a line of each player has been scored +1.
C12_Witness ==
  /\ pc = "done"
  /\ NumEmpty(call.board) = 0
  /\ check_win(call.board, COMPUTER)
  /\ check_win(call.board, PLAYER)
  /\ ret = [score |-> 1, move |-> None]
  /\ board = call.board

\* play_game stands at a call of make_move (line 122 or line 126).
AtMakeMove == pc \in {"player_move", "computer_move"}

\* The cells of the round as the applied moves have left them: minimax
\* works on the same list, so during a search they are the cells at its call.
RoundBoard == IF stack = <<>> THEN board ELSE call.board

\* C13: every call of make_move in a round names an index in 0..8 whose
\* cell is empty, and changes that cell alone; a cell holding X or O keeps
\* its value until the round is over, the searches in between included.
C13_MakeMoveOnEmpty ==
  [][/\ AtMakeMove =>
          /\ move \in Cells
          /\ board[move] = EMPTY
          /\ {i \in Cells : board'[i] # board[i]} = {move}
          /\ board'[move] = current_player
     /\ pc \notin {"ask", "exit"} =>
          \A i \in Cells : RoundBoard[i] # EMPTY => board'[i] = RoundBoard[i]]_vars

\* The computer is about to mark an empty cell of a board with five marks.
C13_Witness ==
  /\ pc = "computer_move"
  /\ NumEmpty(board) = 4
  /\ move \in Cells
  /\ board[move] = EMPTY

\* play_game stands at the top of its loop, no move requested yet or the
\* human still being asked.
AtLoopTop == pc \in {"player_input", "computer_call"}

Count(b, symbol) == Cardinality({i \in Cells : b[i] = symbol})

\* A round begins: the first one, or the next one after a yes.
RoundStarts == pc = "ask" /\ pc' = "player_input"

\* C14: at the top of play_game's loop the board holds as many X as O when
\* the human is the active player and one X more when the computer is; a
\* round starts on the empty board with the human active, and the active
\* player changes with every applied move that does not end the round and
\* at no other time within a round.
C14_CountParity ==
  /\ board = EmptyBoard /\ current_player = PLAYER /\ pc = "player_input"
  /\ [][/\ AtLoopTop' =>
             /\ pc' = "player_input" <=> current_player' = PLAYER
             /\ Count(board', PLAYER) - Count(board', COMPUTER) =
                  IF current_player' = PLAYER THEN 0 ELSE 1
        /\ RoundStarts => board' = EmptyBoard /\ current_player' = PLAYER
        /\ MoveApplied /\ pc' # "ask" => current_player' # current_player
        /\ current_player' # current_player => MoveApplied \/ RoundStarts]_vars

\* The computer is the active player on a board of three X and two O.
C14_Witness ==
  /\ pc = "computer_call"
  /\ current_player = COMPUTER
  /\ Count(board, PLAYER) = 3
  /\ Count(board, COMPUTER) = 2

\* The human, whenever prompted for a move, eventually supplies a valid one.
HumanSuppliesMove == [](pc = "player_input" => <>(pc = "player_move"))

\* A round is under way.
RoundRuns == pc \notin {"ask", "exit", "raised"}

\* The round has just ended in a win or a draw.
RoundEnded == pc = "ask" /\ message \in {"You win!", "Computer wins!", "It's a draw!"}

\* C15: if the human eventually supplies a valid move whenever prompted,
\* every round eventually ends in a win or a draw; each applied move fills
\* one more cell, and a round never holds more than 5 moves of the human
\* and 4 of the computer, 9 in all.
C15_RoundEnds ==
  /\ HumanSuppliesMove => [](RoundRuns => <>RoundEnded)
  /\ [][MoveApplied => NumEmpty(board') = NumEmpty(board) - 1]_vars
  /\ [](/\ Count(RoundBoard, PLAYER) <= 5
        /\ Count(RoundBoard, COMPUTER) <= 4)

\* A round has ended with its ninth move.
C15_Witness ==
  /\ RoundEnded
  /\ Count(board, PLAYER) = 5
  /\ Count(board, COMPUTER) = 4

\* The board of a round that is over: a line, or no empty cell.
BoardDecided(b) ==
  check_win(b, PLAYER) \/ check_win(b, COMPUTER) \/ NumEmpty(b) = 0

\* play_game is entered: its welcome (line 115) is printed anew.
PlayGameEntered ==
  /\ message' = "Welcome to Tic-Tac-Toe! You are X, the computer is O."
  /\ message' # message

\* C16: main's first round and every later one begin on the empty board
\* with the human active, whatever the round before left behind; a round
\* begins only from main's question after a round that ended in a win or
\* a draw, main leaves that question only for a new round or to stop, and
\* once it has stopped nothing more happens.
C16_FreshRounds ==
  /\ board = EmptyBoard /\ current_player = PLAYER /\ pc = "player_input"
  /\ [][/\ PlayGameEntered =>
             /\ pc = "ask"
             /\ BoardDecided(board)
             /\ board' = EmptyBoard
             /\ current_player' = PLAYER
             /\ pc' = "player_input"
             /\ stack' = <<>>
        /\ pc = "ask" =>
             \/ PlayGameEntered
             \/ pc' = "exit" /\ message' = "Thanks for playing!" /\ board' = board
             \/ pc' = "ask" /\ board' = board
        /\ pc' = "ask" /\ pc # "ask" => BoardDecided(board')
        /\ pc # "exit"]_vars

\* main has stopped after a round the computer won.
C16_Witness ==
  /\ pc = "exit"
  /\ message = "Thanks for playing!"
  /\ check_win(board, COMPUTER)

\* C17: while a top-level call of minimax runs, the calls nested below it
\* are never more than the empty cells of its input board, so never more
\* than 9; every nested call stands on a board with exactly one empty cell
\* fewer than its caller's.
C17_DepthBound ==
  /\ stack # <<>> =>
       /\ Len(stack) - 1 <= NumEmpty(call.board)
       /\ Len(stack) - 1 <= 9
       /\ \A k \in 1..(Len(stack) - 1) :
            NumEmpty(stack[k].entry) = NumEmpty(stack[k + 1].entry) - 1
       /\ stack[Len(stack)].entry = call.board
  /\ TopLevelReturned =>
       \E r \in {minimax(call.board, call.is_maximizing)} :
         r.depth <= NumEmpty(call.board) /\ r.depth <= 9

\* The search stands as deep as its input board has empty cells.
C17_Witness ==
  /\ Len(stack) = MaxStepped + 1
  /\ NumEmpty(call.board) = MaxStepped
  /\ NumEmpty(board) = 0
  /\ Top.at = "check"

RECURSIVE Factorial(_)
Factorial(n) == IF n = 0 THEN 1 ELSE n * Factorial(n - 1)

\* The nodes of the tree of all placement orders of n cells, cut nowhere:
\* 1 + n + n(n-1) + ... + n!.
RECURSIVE PathBound(_)
PathBound(n) == IF n = 0 THEN 1 ELSE 1 + n * PathBound(n - 1)

\* C18 as stated: one top-level call of minimax makes at most 9! = 362,880
\* invocations of minimax, on every input board, the empty one included.
C18_CallsAtMostFactorial ==
  TopLevelReturned =>
    minimax(call.board, call.is_maximizing).calls <= Factorial(9)

\* C18, amended: on a board of n empty cells one top-level call makes at
\* most 1 + n + n(n-1) + ... + n! invocations, 986,410 for n = 9; on the
\* empty board it makes 549,946 of them.
C18_CallsBound ==
  TopLevelReturned =>
    \E r \in {minimax(call.board, call.is_maximizing)} :
      /\ r.calls <= PathBound(NumEmpty(call.board))
      /\ r.calls <= 986410
      /\ call.board = EmptyBoard => r.calls = 549946

\* The search of the empty board has returned after more than 9! calls.
C18_Witness ==
  /\ pc = "done"
  /\ call.board = EmptyBoard
  /\ minimax(call.board, call.is_maximizing).calls > Factorial(9)

====
